---- MODULE Spec2Model ----
(***************************************************************************)
(* examples/ar.py: the DeepAR example driver.  The module is run either as *)
(* a program (main) or one of its four helper functions is called on its   *)
(* own.  Every framework call is one step; it either returns or raises.    *)
(***************************************************************************)
EXTENDS Integers, Sequences, FiniteSets, TLC

\* ------------------------------------------------------------------ bounds
\* Scaled-down stand-ins for the sizes the script uses.
NSeries == 2        \* n_series = 100
Timesteps == 2      \* timesteps = 400
SampleSize == 2     \* data.series.sample(20)
BatchSize == 2      \* batch_size = 64
MaxTargets == 3     \* most validation targets a dataloader holds
MaxVal == 1         \* targets and predictions range over 0..MaxVal
MaxPlotSamples == 11 \* most validation samples handed to plot_prediction

\* ------------------------------------------------------- program constants
PlotCount == 10     \* range(10)
NumThreads == 10    \* torch.set_num_threads(10)
NumWorkers == 0     \* num_workers=0

VARIABLES
    entry,          \* the function that was called: main or one of the helpers
    faulty,         \* whether the framework may raise in this run
    pc,             \* the statement about to execute, "done" or "failed"
    trace,          \* the framework calls issued so far, <<name, argument>>
    failure,        \* the call whose exception ended the run, or "none"
    out,            \* console output, <<label, value>>
    data,           \* main: rows of the generated frame
    sampled,        \* main: the sample drawn at line 58 (kept for reference)
    validation,     \* main: what the name `validation` is bound to
    training,       \* main: rows of the training dataset
    frame,          \* main: the frame the last row filter produced
    numThreads,     \* thread count of the numeric library
    workers,        \* num_workers of the two dataloaders (-1: not created)
    val_dataloader, \* the validation targets, in dataloader order
    it,             \* list comprehension: targets already fetched
    ys,             \* list comprehension: the batches collected
    actuals,        \* eval_predictions: torch.cat result
    predictions,    \* eval_predictions: model.predict result
    mae,            \* eval_predictions: result <<sum, count>>, <<>> if unset
    idx,            \* plot_prediction: loop variable
    hparams,        \* model.hparams and trainer.limit_train_batches
    suggestion      \* fine_optimal_lr: res.suggestion()

ctl == <<entry, faulty>>
dataVars == <<data, sampled, validation, training, frame>>
evalVars == <<it, ys, actuals, predictions, mae>>
vars == <<entry, faulty, pc, trace, failure, out, data, sampled, validation,
          training, frame, numThreads, workers, val_dataloader, it, ys,
          actuals, predictions, mae, idx, hparams, suggestion>>

\* ------------------------------------------------------------------ values
Entries == {"main", "fine_optimal_lr", "fit_model", "eval_predictions",
            "plot_prediction"}
Vals == 0..MaxVal
Series == 1..NSeries
Rows == {<<s, t>> : s \in Series, t \in 0..(Timesteps - 1)}
InitThreads == {1, 4}
LrSuggestions == {"1e-3", "1e-2"}

SeqsUpTo(S, lo, hi) == UNION {[1..n -> S] : n \in lo..hi}
Zeros(n) == [k \in 1..n |-> 0]

NoBinding == [kind |-> "none", values |-> [s \in Series |-> 0], rows |-> {}]

Min(a, b) == IF a < b THEN a ELSE b
Abs(x) == IF x < 0 THEN -x ELSE x

StartOf(e) ==
    CASE e = "main" -> "main_55"
      [] e = "fine_optimal_lr" -> "lr_18"
      [] e = "fit_model" -> "fit_33"
      [] e = "eval_predictions" -> "eval_43_iter"
      [] e = "plot_prediction" -> "plot_49"

\* A helper returns to main when main called it, and ends the run otherwise.
ReturnTo(mainNext) == IF entry = "main" THEN mainNext ELSE "done"

\* -------------------------------------------------------- framework calls
\* A call is issued, and then returns or raises.  A raised exception is not
\* caught anywhere in the file: the run stops at the call.
Issue(c, arg) == trace' = Append(trace, <<c, arg>>)

Returns(next) == pc' = next /\ failure' = failure

Raises(c) == pc' = "failed" /\ failure' = c

Init ==
    /\ entry \in Entries
    /\ faulty \in BOOLEAN
    /\ pc = StartOf(entry)
    /\ trace = <<>>
    /\ failure = "none"
    /\ out = <<>>
    /\ data = {}
    /\ sampled = [s \in Series |-> 0]
    /\ validation = NoBinding
    /\ training = {}
    /\ frame = {}
    /\ numThreads \in InitThreads
    /\ workers = IF entry = "main" THEN [train |-> -1, val |-> -1]
                                   ELSE [train |-> 0, val |-> 0]
    /\ val_dataloader \in
         CASE entry = "main" -> {<<>>}
           [] entry = "eval_predictions" -> SeqsUpTo(Vals, 0, MaxTargets)
           [] entry = "plot_prediction" -> {Zeros(n) : n \in 0..MaxPlotSamples}
           [] OTHER -> {Zeros(1)}
    /\ it = 0
    /\ ys = <<>>
    /\ actuals = <<>>
    /\ predictions = <<>>
    /\ mae = <<>>
    /\ idx = 0
    /\ hparams = IF entry = "main"
                 THEN [learning_rate |-> "unset", log_interval |-> 0,
                       log_val_interval |-> 0, limit_train_batches |-> "unset"]
                 ELSE [learning_rate |-> "0.1", log_interval |-> 10,
                       log_val_interval |-> 3, limit_train_batches |-> "30"]
    /\ suggestion = "none"

\* ------------------------------------------------------------------- main
\* line 55
GenerateData ==
    /\ pc = "main_55"
    /\ Issue("generate_ar_data", 0)
    /\ \/ Returns("main_56") /\ data' = Rows
       \/ faulty /\ Raises("generate_ar_data") /\ UNCHANGED data
    /\ UNCHANGED <<ctl, out, sampled, validation, training, frame, numThreads,
                   workers, val_dataloader, evalVars, idx, hparams, suggestion>>

\* lines 56-57: two column assignments; the rows stay as they are
AddColumns ==
    /\ pc = "main_56"
    /\ Issue("to_timedelta", 0)
    /\ \/ Returns("main_58")
       \/ faulty /\ Raises("to_timedelta")
    /\ UNCHANGED <<ctl, out, dataVars, numThreads, workers, val_dataloader,
                   evalVars, idx, hparams, suggestion>>

\* The series values of a set of rows, as a count per series.
SeriesCounts(rs) == [s \in Series |-> Cardinality({r \in rs : r[1] = s})]

\* line 58: sample(20) draws rows of the series column without replacement
SampleValidation ==
    /\ pc = "main_58"
    /\ Issue("sample", SampleSize)
    /\ \/ /\ Returns("main_64")
          /\ \E drawn \in SUBSET data :
                /\ Cardinality(drawn) = SampleSize
                /\ validation' = [kind |-> "sample",
                                  values |-> SeriesCounts(drawn), rows |-> {}]
                /\ sampled' = SeriesCounts(drawn)
       \/ faulty /\ Raises("sample") /\ UNCHANGED <<validation, sampled>>
    /\ UNCHANGED <<ctl, out, data, training, frame, numThreads, workers,
                   val_dataloader, evalVars, idx, hparams, suggestion>>

\* x.series.isin(v): membership in the values v holds
IsIn(s, v) == v.kind = "sample" /\ v.values[s] > 0

\* FilterTraining, with the negation left out
FilterTraining_NoNegation ==
    /\ pc = "main_64"
    /\ Issue("isin", 0)
    /\ \/ /\ Returns("main_63")
          /\ frame' = {r \in data : IsIn(r[1], validation)}
       \/ faulty /\ Raises("isin") /\ UNCHANGED frame
    /\ UNCHANGED <<ctl, out, data, sampled, validation, training, numThreads,
                   workers, val_dataloader, evalVars, idx, hparams, suggestion>>

\* line 64: data[lambda x: ~x.series.isin(validation)]
FilterTraining ==
    /\ pc = "main_64"
    /\ Issue("isin", 0)
    /\ \/ /\ Returns("main_63")
          /\ frame' = {r \in data : ~IsIn(r[1], validation)}
       \/ faulty /\ Raises("isin") /\ UNCHANGED frame
    /\ UNCHANGED <<ctl, out, data, sampled, validation, training, numThreads,
                   workers, val_dataloader, evalVars, idx, hparams, suggestion>>

\* lines 63-80: training = TimeSeriesDataSet(<filtered frame>, ...)
BuildTraining ==
    /\ pc = "main_63"
    /\ Issue("TimeSeriesDataSet", 0)
    /\ \/ Returns("main_84") /\ training' = frame
       \/ faulty /\ Raises("TimeSeriesDataSet") /\ UNCHANGED training
    /\ UNCHANGED <<ctl, out, data, sampled, validation, frame, numThreads,
                   workers, val_dataloader, evalVars, idx, hparams, suggestion>>

\* line 84: data[lambda x: x.series.isin(validation)], an argument of the
\* call of line 82 and so evaluated before `validation` is rebound
FilterValidation ==
    /\ pc = "main_84"
    /\ Issue("isin", 1)
    /\ \/ /\ Returns("main_82")
          /\ frame' = {r \in data : IsIn(r[1], validation)}
       \/ faulty /\ Raises("isin") /\ UNCHANGED frame
    /\ UNCHANGED <<ctl, out, data, sampled, validation, training, numThreads,
                   workers, val_dataloader, evalVars, idx, hparams, suggestion>>

\* lines 82-86: validation = TimeSeriesDataSet.from_dataset(training, ...)
BuildValidation ==
    /\ pc = "main_82"
    /\ Issue("from_dataset", 0)
    /\ \/ /\ Returns("main_88")
          /\ validation' = [kind |-> "dataset",
                            values |-> [s \in Series |-> 0], rows |-> frame]
       \/ faulty /\ Raises("from_dataset") /\ UNCHANGED validation
    /\ UNCHANGED <<ctl, out, data, sampled, training, frame, numThreads,
                   workers, val_dataloader, evalVars, idx, hparams, suggestion>>

\* line 88
TrainDataloader ==
    /\ pc = "main_88"
    /\ Issue("to_dataloader", 0)
    /\ \/ Returns("main_89") /\ workers' = [workers EXCEPT !.train = NumWorkers]
       \/ faulty /\ Raises("to_dataloader") /\ UNCHANGED workers
    /\ UNCHANGED <<ctl, out, dataVars, numThreads, val_dataloader, evalVars,
                   idx, hparams, suggestion>>

\* line 89: the validation dataset is not empty, and its targets are whatever
\* the windowing of the framework makes of the validation rows
ValDataloader ==
    /\ pc = "main_89"
    /\ Issue("to_dataloader", 1)
    /\ \/ /\ Returns("main_91")
          /\ workers' = [workers EXCEPT !.val = NumWorkers]
          /\ val_dataloader' \in SeqsUpTo(Vals, 1, MaxTargets)
       \/ faulty /\ Raises("to_dataloader") /\ UNCHANGED <<workers, val_dataloader>>
    /\ UNCHANGED <<ctl, out, dataVars, numThreads, evalVars, idx, hparams,
                   suggestion>>

\* lines 91-92: EarlyStopping(...), LearningRateMonitor()
BuildCallbacks ==
    /\ pc = "main_91"
    /\ Issue("EarlyStopping", 0)
    /\ \/ Returns("main_93")
       \/ faulty /\ Raises("EarlyStopping")
    /\ UNCHANGED <<ctl, out, dataVars, numThreads, workers, val_dataloader,
                   evalVars, idx, hparams, suggestion>>

\* lines 93-100: pl.Trainer(..., limit_train_batches=30, ...)
BuildTrainer ==
    /\ pc = "main_93"
    /\ Issue("Trainer", 0)
    /\ \/ /\ Returns("main_101")
          /\ hparams' = [hparams EXCEPT !.limit_train_batches = "30"]
       \/ faulty /\ Raises("Trainer") /\ UNCHANGED hparams
    /\ UNCHANGED <<ctl, out, dataVars, numThreads, workers, val_dataloader,
                   evalVars, idx, suggestion>>

\* BuildModel, with main going from the model straight to the evaluation
BuildModel_SkipsFit ==
    /\ pc = "main_101"
    /\ Issue("DeepAR.from_dataset", 0)
    /\ \/ /\ Returns("eval_43_iter")
          /\ hparams' = [hparams EXCEPT !.learning_rate = "0.1",
                                        !.log_interval = 10,
                                        !.log_val_interval = 3]
       \/ faulty /\ Raises("DeepAR.from_dataset") /\ UNCHANGED hparams
    /\ UNCHANGED <<ctl, out, dataVars, numThreads, workers, val_dataloader,
                   evalVars, idx, suggestion>>

\* lines 101-109: DeepAR.from_dataset(training, learning_rate=0.1, ...)
BuildModel ==
    /\ pc = "main_101"
    /\ Issue("DeepAR.from_dataset", 0)
    /\ \/ /\ Returns("main_110")
          /\ hparams' = [hparams EXCEPT !.learning_rate = "0.1",
                                        !.log_interval = 10,
                                        !.log_val_interval = 3]
       \/ faulty /\ Raises("DeepAR.from_dataset") /\ UNCHANGED hparams
    /\ UNCHANGED <<ctl, out, dataVars, numThreads, workers, val_dataloader,
                   evalVars, idx, suggestion>>

\* line 110: print(f"Number of parameters in network: ...")
PrintSize ==
    /\ pc = "main_110"
    /\ Issue("size", 0)
    /\ \/ /\ Returns("fit_33")
          /\ out' = Append(out, <<"Number of parameters in network", <<>> >>)
       \/ faulty /\ Raises("size") /\ UNCHANGED out
    /\ UNCHANGED <<ctl, dataVars, numThreads, workers, val_dataloader,
                   evalVars, idx, hparams, suggestion>>

\* PrintMae, with main going on to call plot_prediction
PrintMae_ThenPlots ==
    /\ pc = "main_115"
    /\ Issue("print", 0)
    /\ \/ /\ Returns("plot_49")
          /\ out' = Append(out, <<"Mean absolute error of model", mae>>)
       \/ faulty /\ Raises("print") /\ UNCHANGED out
    /\ UNCHANGED <<ctl, dataVars, numThreads, workers, val_dataloader,
                   evalVars, idx, hparams, suggestion>>

\* line 115: print(f"Mean absolute error of model: {mae}"); main ends
PrintMae ==
    /\ pc = "main_115"
    /\ Issue("print", 0)
    /\ \/ /\ Returns("done")
          /\ out' = Append(out, <<"Mean absolute error of model", mae>>)
       \/ faulty /\ Raises("print") /\ UNCHANGED out
    /\ UNCHANGED <<ctl, dataVars, numThreads, workers, val_dataloader,
                   evalVars, idx, hparams, suggestion>>

\* -------------------------------------------------------------- fit_model
\* SetNumThreads, with the call made but the thread count left as it was
SetNumThreads_NoEffect ==
    /\ pc = "fit_33"
    /\ Issue("set_num_threads", NumThreads)
    /\ \/ Returns("fit_34")
       \/ faulty /\ Raises("set_num_threads")
    /\ UNCHANGED <<ctl, out, dataVars, numThreads, workers, val_dataloader,
                   evalVars, idx, hparams, suggestion>>

\* line 33
SetNumThreads ==
    /\ pc = "fit_33"
    /\ Issue("set_num_threads", NumThreads)
    /\ \/ Returns("fit_34") /\ numThreads' = NumThreads
       \/ faulty /\ Raises("set_num_threads") /\ UNCHANGED numThreads
    /\ UNCHANGED <<ctl, out, dataVars, workers, val_dataloader, evalVars, idx,
                   hparams, suggestion>>

\* TrainerFit, with the exception of trainer.fit caught and the run going on
TrainerFit_Swallows ==
    /\ pc = "fit_34"
    /\ Issue("fit", 0)
    /\ \/ Returns(ReturnTo("eval_43_iter"))
       \/ faulty /\ pc' = ReturnTo("eval_43_iter") /\ failure' = "fit"
    /\ UNCHANGED <<ctl, out, dataVars, numThreads, workers, val_dataloader,
                   evalVars, idx, hparams, suggestion>>

\* lines 34-38; main goes on to line 114, the call of eval_predictions
TrainerFit ==
    /\ pc = "fit_34"
    /\ Issue("fit", 0)
    /\ \/ Returns(ReturnTo("eval_43_iter"))
       \/ faulty /\ Raises("fit")
    /\ UNCHANGED <<ctl, out, dataVars, numThreads, workers, val_dataloader,
                   evalVars, idx, hparams, suggestion>>

\* ------------------------------------------------------- eval_predictions
\* line 43: iter(val_dataloader)
IterDataloader ==
    /\ pc = "eval_43_iter"
    /\ Issue("iter", 0)
    /\ \/ Returns("eval_43_next") /\ it' = 0 /\ ys' = <<>>
       \/ faulty /\ Raises("iter") /\ UNCHANGED <<it, ys>>
    /\ UNCHANGED <<ctl, out, dataVars, numThreads, workers, val_dataloader,
                   actuals, predictions, mae, idx, hparams, suggestion>>

\* The batch the dataloader yields after `done` targets: the next batch_size
\* targets, fewer in the last batch.
BatchAt(loader, done) ==
    SubSeq(loader, done + 1, Min(done + BatchSize, Len(loader)))

\* line 43: the comprehension fetches a batch and keeps its y
NextBatch ==
    /\ pc = "eval_43_next"
    /\ it < Len(val_dataloader)
    /\ Issue("next", 0)
    /\ \/ /\ Returns("eval_43_next")
          /\ ys' = Append(ys, BatchAt(val_dataloader, it))
          /\ it' = it + Len(BatchAt(val_dataloader, it))
       \/ faulty /\ Raises("next") /\ UNCHANGED <<it, ys>>
    /\ UNCHANGED <<ctl, out, dataVars, numThreads, workers, val_dataloader,
                   actuals, predictions, mae, idx, hparams, suggestion>>

\* line 43: the fetch that finds the dataloader exhausted ends the comprehension
LoaderExhausted ==
    /\ pc = "eval_43_next"
    /\ it >= Len(val_dataloader)
    /\ Issue("next", 0)
    /\ \/ Returns("eval_43_cat")
       \/ faulty /\ Raises("next")
    /\ UNCHANGED <<ctl, out, dataVars, numThreads, workers, val_dataloader,
                   evalVars, idx, hparams, suggestion>>

RECURSIVE Cat(_)
\* torch.cat: the tensors of a list, one after the other
Cat(ts) == IF ts = <<>> THEN <<>> ELSE Head(ts) \o Cat(Tail(ts))

\* CatActuals, with torch.cat given something it rejects
CatActuals_Rejected ==
    /\ pc = "eval_43_cat"
    /\ Issue("cat", 0)
    /\ Raises("cat")
    /\ UNCHANGED <<ctl, out, dataVars, numThreads, workers, val_dataloader,
                   evalVars, idx, hparams, suggestion>>

\* line 43: torch.cat([...]); an empty list of tensors is an error
CatActuals ==
    /\ pc = "eval_43_cat"
    /\ Issue("cat", 0)
    /\ \/ ys # <<>> /\ Returns("eval_44") /\ actuals' = Cat(ys)
       \/ (faulty \/ ys = <<>>) /\ Raises("cat") /\ UNCHANGED actuals
    /\ UNCHANGED <<ctl, out, dataVars, numThreads, workers, val_dataloader,
                   it, ys, predictions, mae, idx, hparams, suggestion>>

\* line 44: model.predict walks the dataloader itself and returns one
\* prediction per target, in the order of that walk
Predict ==
    /\ pc = "eval_44"
    /\ Issue("predict", 0)
    /\ \/ /\ Returns("eval_45")
          /\ predictions' \in [1..Len(val_dataloader) -> Vals]
       \/ faulty /\ Raises("predict") /\ UNCHANGED predictions
    /\ UNCHANGED <<ctl, out, dataVars, numThreads, workers, val_dataloader,
                   it, ys, actuals, mae, idx, hparams, suggestion>>

\* a - b, elementwise
TensorSub(a, b) == [k \in 1..Len(a) |-> a[k] - b[k]]

\* TensorAbs, with the absolute value left out
TensorAbs_Signed(t) == t

\* t.abs()
TensorAbs(t) == [k \in 1..Len(t) |-> Abs(t[k])]

RECURSIVE TensorSum(_)
TensorSum(t) == IF t = <<>> THEN 0 ELSE Head(t) + TensorSum(Tail(t))

\* t.mean(), kept exact as <<sum, count>>
TensorMean(t) == <<TensorSum(t), Len(t)>>

\* line 45: (actuals - predictions).abs().mean(); main goes on to line 115
ComputeMae ==
    /\ pc = "eval_45"
    /\ Issue("abs_mean", 0)
    /\ \/ /\ Returns(ReturnTo("main_115"))
          /\ mae' = TensorMean(TensorAbs(TensorSub(actuals, predictions)))
       \/ faulty /\ Raises("abs_mean") /\ UNCHANGED mae
    /\ UNCHANGED <<ctl, out, dataVars, numThreads, workers, val_dataloader,
                   it, ys, actuals, predictions, idx, hparams, suggestion>>

\* -------------------------------------------------------- fine_optimal_lr
\* lines 18-20: three attribute assignments
SetLogIntervals ==
    /\ pc = "lr_18"
    /\ pc' = "lr_21"
    /\ hparams' = [hparams EXCEPT !.log_interval = -1,
                                  !.log_val_interval = -1,
                                  !.limit_train_batches = "1.0"]
    /\ UNCHANGED <<ctl, trace, failure, out, dataVars, numThreads, workers,
                   val_dataloader, evalVars, idx, suggestion>>

\* lines 21-23: Tuner(trainer).lr_find(...)
LrFind ==
    /\ pc = "lr_21"
    /\ Issue("lr_find", 0)
    /\ \/ Returns("lr_25") /\ suggestion' \in LrSuggestions
       \/ faulty /\ Raises("lr_find") /\ UNCHANGED suggestion
    /\ UNCHANGED <<ctl, out, dataVars, numThreads, workers, val_dataloader,
                   evalVars, idx, hparams>>

\* line 25: print(f"suggested learning rate: {res.suggestion()}")
PrintSuggestion ==
    /\ pc = "lr_25"
    /\ Issue("suggestion", 0)
    /\ \/ /\ Returns("lr_26")
          /\ out' = Append(out, <<"suggested learning rate", <<suggestion>> >>)
       \/ faulty /\ Raises("suggestion") /\ UNCHANGED out
    /\ UNCHANGED <<ctl, dataVars, numThreads, workers, val_dataloader,
                   evalVars, idx, hparams, suggestion>>

\* PlotLr, with the plot made for one of the suggestions only
PlotLr_OnlyLowLr ==
    /\ pc = "lr_26"
    /\ \/ /\ suggestion = "1e-3"
          /\ Issue("plot", 0)
          /\ \/ Returns("lr_27")
             \/ faulty /\ Raises("plot")
       \/ /\ suggestion # "1e-3"
          /\ UNCHANGED trace
          /\ Returns("lr_27")
    /\ UNCHANGED <<ctl, out, dataVars, numThreads, workers, val_dataloader,
                   evalVars, idx, hparams, suggestion>>

\* line 26: res.plot(show=True, suggest=True)
PlotLr ==
    /\ pc = "lr_26"
    /\ Issue("plot", 0)
    /\ \/ Returns("lr_27")
       \/ faulty /\ Raises("plot")
    /\ UNCHANGED <<ctl, out, dataVars, numThreads, workers, val_dataloader,
                   evalVars, idx, hparams, suggestion>>

\* line 27: fig.show()
ShowFig ==
    /\ pc = "lr_27"
    /\ Issue("show", 0)
    /\ \/ Returns("lr_28")
       \/ faulty /\ Raises("show")
    /\ UNCHANGED <<ctl, out, dataVars, numThreads, workers, val_dataloader,
                   evalVars, idx, hparams, suggestion>>

\* lines 28-29: model.hparams.learning_rate = res.suggestion(); return it
SetLearningRate ==
    /\ pc = "lr_28"
    /\ Issue("suggestion", 1)
    /\ \/ /\ Returns("done")
          /\ hparams' = [hparams EXCEPT !.learning_rate = suggestion]
       \/ faulty /\ Raises("suggestion") /\ UNCHANGED hparams
    /\ UNCHANGED <<ctl, out, dataVars, numThreads, workers, val_dataloader,
                   evalVars, idx, suggestion>>

\* -------------------------------------------------------- plot_prediction
\* line 49: model.predict(val_dataloader, mode="raw", return_x=True, ...)
PredictRaw ==
    /\ pc = "plot_49"
    /\ Issue("predict_raw", 0)
    /\ \/ Returns("plot_50") /\ idx' = 0
       \/ faulty /\ Raises("predict_raw") /\ UNCHANGED idx
    /\ UNCHANGED <<ctl, out, dataVars, numThreads, workers, val_dataloader,
                   evalVars, hparams, suggestion>>

\* LoopGoesOn, with the loop stopping at the number of validation samples
LoopGoesOn_WithinSamples(i) == i < PlotCount /\ i < Len(val_dataloader)

\* for idx in range(10): the loop goes on while idx is below 10
LoopGoesOn(i) == i < PlotCount

\* The raw predictions hold one entry per validation sample; an index at or
\* past their number is outside them, and indexing there raises.
Outside(i) == i >= Len(val_dataloader)

\* lines 50-51: one pass of the loop body
PlotOne ==
    /\ pc = "plot_50"
    /\ LoopGoesOn(idx)
    /\ Issue("plot_prediction", idx)
    /\ \/ ~Outside(idx) /\ Returns("plot_50") /\ idx' = idx + 1
       \/ (faulty \/ Outside(idx)) /\ Raises("plot_prediction") /\ UNCHANGED idx
    /\ UNCHANGED <<ctl, out, dataVars, numThreads, workers, val_dataloader,
                   evalVars, hparams, suggestion>>

\* line 50: range(10) is used up; the function returns
PlotLoopEnd ==
    /\ pc = "plot_50"
    /\ ~LoopGoesOn(idx)
    /\ pc' = "done"
    /\ UNCHANGED <<ctl, trace, failure, out, dataVars, numThreads, workers,
                   val_dataloader, evalVars, idx, hparams, suggestion>>

Next ==
    \/ GenerateData
    \/ AddColumns
    \/ SampleValidation
    \/ FilterTraining
    \/ BuildTraining
    \/ FilterValidation
    \/ BuildValidation
    \/ TrainDataloader
    \/ ValDataloader
    \/ BuildCallbacks
    \/ BuildTrainer
    \/ BuildModel
    \/ PrintSize
    \/ SetNumThreads
    \/ TrainerFit
    \/ IterDataloader
    \/ NextBatch
    \/ LoaderExhausted
    \/ CatActuals
    \/ Predict
    \/ ComputeMae
    \/ PrintMae
    \/ SetLogIntervals
    \/ LrFind
    \/ PrintSuggestion
    \/ PlotLr
    \/ ShowFig
    \/ SetLearningRate
    \/ PredictRaw
    \/ PlotOne
    \/ PlotLoopEnd

Spec == Init /\ [][Next]_vars

\* Runs of main in which every framework call returns, beside the runs of the
\* helpers.
LiveInit == Init /\ (entry = "main" => ~faulty)

\* The interpreter runs the next statement whenever there is one.
LiveSpec == LiveInit /\ [][Next]_vars /\ WF_vars(Next)

\* ----------------------------------------------------------- call sequences
Names(t) == [k \in 1..Len(t) |-> t[k][1]]

IsPrefix(s, t) == Len(s) <= Len(t) /\ SubSeq(t, 1, Len(s)) = s

RECURSIVE Keep(_, _)
\* the entries of s that are in K, in their order
Keep(s, K) ==
    IF s = <<>> THEN <<>>
    ELSE IF Head(s) \in K THEN <<Head(s)>> \o Keep(Tail(s), K)
    ELSE Keep(Tail(s), K)

Has(c) == \E k \in 1..Len(trace) : trace[k][1] = c

Repeat(x, n) == [k \in 1..n |-> x]

\* number of batches a dataloader of n targets yields
Batches(n) == (n + BatchSize - 1) \div BatchSize

MaePrinted == \E k \in 1..Len(out) : out[k][1] = "Mean absolute error of model"

\* The calls main issues, the batch fetches left out.
MainCalls ==
    <<"generate_ar_data", "to_timedelta", "sample", "isin",
      "TimeSeriesDataSet", "isin", "from_dataset", "to_dataloader",
      "to_dataloader", "EarlyStopping", "Trainer", "DeepAR.from_dataset",
      "size", "set_num_threads", "fit", "iter", "cat", "predict", "abs_mean",
      "print">>

\* The seven steps of main, in the order of the source.
MainSteps ==
    <<"generate_ar_data", "TimeSeriesDataSet", "from_dataset",
      "DeepAR.from_dataset", "fit", "predict", "print">>

Range(s) == {s[k] : k \in 1..Len(s)}

\* C1: every run of main issues its steps in the one order of the source:
\* what it has issued so far is always an initial part of that order (nothing
\* skipped, repeated or reordered), and a completed run has issued every step
\* exactly once, whatever the framework returned.
C1_FixedOrder ==
    entry = "main" =>
        /\ IsPrefix(Keep(Names(trace), Range(MainCalls)), MainCalls)
        /\ IsPrefix(Keep(Names(trace), Range(MainSteps)), MainSteps)
        /\ pc = "done" =>
              /\ Keep(Names(trace), Range(MainCalls)) = MainCalls
              /\ Keep(Names(trace), Range(MainSteps)) = MainSteps

C1_Witness ==
    /\ entry = "main"
    /\ pc = "done"
    /\ faulty
    /\ Len(val_dataloader) = MaxTargets

\* C2 as stated: a completed run of main has printed the mean absolute error
\* and has also reached plot_prediction.
C2_PrintsAndPlots ==
    (entry = "main" /\ pc = "done") =>
        /\ MaePrinted
        /\ Has("predict_raw")
        /\ Has("plot_prediction")

\* C2, amended: a completed run of main has fitted the model and then printed
\* the mean absolute error as its last output; no run of main calls
\* plot_prediction or fine_optimal_lr, so main produces no plots.
C2_PrintsOnly ==
    entry = "main" =>
        /\ ~Has("predict_raw") /\ ~Has("plot_prediction")
        /\ ~Has("lr_find") /\ ~Has("plot") /\ ~Has("show")
        /\ pc = "done" =>
              /\ out = << <<"Number of parameters in network", <<>> >>,
                         <<"Mean absolute error of model", mae>> >>
              /\ mae # <<>>
              /\ Has("fit")
              /\ trace[Len(trace)] = <<"print", 0>>

C2_Witness ==
    /\ entry = "main"
    /\ pc = "done"
    /\ MaePrinted
    /\ ~Has("plot_prediction")

\* C3: an exception raised by a framework call is not handled: the run stops
\* at that call with that failure (the failed call is the last one issued),
\* no statement runs afterwards, so the call is not attempted again, and the
\* mean absolute error is not printed in a run that failed.
C3_StopsAtFailure ==
    /\ (pc = "failed") <=> (failure # "none")
    /\ failure # "none" =>
          /\ trace # <<>>
          /\ trace[Len(trace)][1] = failure
          /\ ~MaePrinted
          /\ ~ENABLED Next

\* C3: a failed run is stopped at the failed call in every state, and no step
\* is ever taken from a failed state.
C3_Propagates == []C3_StopsAtFailure /\ [][pc # "failed" /\ failure = "none"]_vars

C3_Witness ==
    /\ entry = "main"
    /\ pc = "failed"
    /\ failure \in {"fit", "predict"}

\* The calls each helper issues: fixed for three of them, and for
\* eval_predictions one fetch per batch and the fetch that finds the end.
HelperCalls(e, batches) ==
    CASE e = "fine_optimal_lr" ->
           <<<<"lr_find", 0>>, <<"suggestion", 0>>, <<"plot", 0>>,
             <<"show", 0>>, <<"suggestion", 1>>>>
      [] e = "fit_model" -> <<<<"set_num_threads", NumThreads>>, <<"fit", 0>>>>
      [] e = "plot_prediction" ->
           <<<<"predict_raw", 0>>>> \o
           [k \in 1..PlotCount |-> <<"plot_prediction", k - 1>>]
      [] e = "eval_predictions" ->
           <<<<"iter", 0>>>> \o Repeat(<<"next", 0>>, batches + 1) \o
           <<<<"cat", 0>>, <<"predict", 0>>, <<"abs_mean", 0>>>>

Helpers == {"fine_optimal_lr", "fit_model", "eval_predictions",
            "plot_prediction"}

\* C4 as stated: each helper issues one and the same sequence of calls on
\* every input; for eval_predictions that is the sequence it issues on a
\* dataloader of one batch.
C4_SameCallsOnEveryInput ==
    (entry \in Helpers /\ pc = "done") => trace = HelperCalls(entry, 1)

\* C4, amended: fine_optimal_lr, fit_model and plot_prediction issue the same
\* sequence of calls on every input; eval_predictions does so except for the
\* batch fetches of its list comprehension, whose number is the number of
\* batches of val_dataloader plus one.
C4_CallsFixedUpToBatches ==
    entry \in Helpers =>
        /\ IsPrefix(trace, HelperCalls(entry, Batches(Len(val_dataloader))))
        /\ pc = "done" =>
              trace = HelperCalls(entry, Batches(Len(val_dataloader)))

C4_Witness ==
    /\ entry = "eval_predictions"
    /\ pc = "done"
    /\ Len(ys) = 2

\* position of the first call named c in the trace, 0 if there is none
FirstCall(c) ==
    IF Has(c) THEN CHOOSE k \in 1..Len(trace) :
                      /\ trace[k][1] = c
                      /\ \A j \in 1..(k - 1) : trace[j][1] # c
    ELSE 0

\* C5: the thread count is set to 10 by fit_model before trainer.fit starts,
\* on every call; nothing else in the file changes it; and main creates both
\* dataloaders with zero workers.
C5_ThreadsAndWorkers ==
    /\ pc = "fit_34" => numThreads = NumThreads
    /\ Has("fit") =>
          /\ Has("set_num_threads")
          /\ FirstCall("set_num_threads") < FirstCall("fit")
          /\ trace[FirstCall("set_num_threads")][2] = 10
    /\ (Has("fit") /\ failure # "fit") => numThreads = 10
    /\ entry = "main" =>
          /\ workers.train \in {-1, 0}
          /\ workers.val \in {-1, 0}
          /\ val_dataloader # <<>> => workers = [train |-> 0, val |-> 0]

\* C5: the above in every state, and the only step that changes the thread
\* count is line 33 of fit_model, which sets it to 10.
C5_SingleKnob ==
    /\ []C5_ThreadsAndWorkers
    /\ [][numThreads' # numThreads => (pc = "fit_33" /\ numThreads' = 10)]_vars

C5_Witness ==
    /\ entry = "main"
    /\ trace # <<>>
    /\ trace[Len(trace)] = <<"fit", 0>>
    /\ pc = "eval_43_iter"
    /\ numThreads = 10
    /\ workers.val = 0

\* C6: when no framework call raises, main reaches its end: it never fails,
\* and it comes to the completed state with the mean absolute error printed.
C6_MainCompletes ==
    /\ []((entry = "main" /\ ~faulty) => failure = "none")
    /\ (entry = "main" /\ ~faulty) ~> (pc = "done" /\ failure = "none" /\ MaePrinted)

C6_Witness ==
    /\ entry = "main"
    /\ ~faulty
    /\ pc = "done"
    /\ Len(ys) = 2
    /\ failure = "none"

RECURSIVE SumAbsErr(_)
\* sum over the first n validation targets of |actual - prediction|
SumAbsErr(n) ==
    IF n = 0 THEN 0
    ELSE Abs(val_dataloader[n] - predictions[n]) + SumAbsErr(n - 1)

\* C7: the result of eval_predictions is the mean absolute error: the actuals
\* are the dataloader's targets in iteration order, the k-th actual is paired
\* with the k-th prediction, the result is the sum of |actual - prediction|
\* over the count of targets, it is never negative, and it is zero exactly
\* when every prediction equals its actual.
C7_MeanAbsoluteError ==
    /\ pc \in {"eval_44", "eval_45"} => actuals = val_dataloader
    /\ mae # <<>> =>
          /\ actuals = val_dataloader
          /\ Len(predictions) = Len(actuals)
          /\ mae[2] = Len(val_dataloader)
          /\ mae[2] > 0
          /\ mae[1] = SumAbsErr(Len(val_dataloader))
          /\ mae[1] >= 0
          /\ (mae[1] = 0) <=>
                (\A k \in 1..Len(val_dataloader) : predictions[k] = val_dataloader[k])

C7_Witness ==
    /\ mae # <<>>
    /\ Len(ys) = 2
    /\ mae[1] > 0
    /\ mae[1] < mae[2]

\* C8: plot_prediction makes one raw predict call and then calls
\* model.plot_prediction with idx = 0, 1, ..., 9 in this order, ten times in
\* a completed run; whether the next index is requested depends on the index
\* alone, not on the number of validation samples, so with fewer than ten
\* samples the index just outside the predictions is requested.
C8_Requests ==
    entry = "plot_prediction" =>
        /\ IsPrefix(trace, HelperCalls("plot_prediction", 0))
        /\ pc = "done" =>
              /\ trace = HelperCalls("plot_prediction", 0)
              /\ Len(SelectSeq(trace, LAMBDA c : c[1] = "plot_prediction")) = 10
              /\ Len(SelectSeq(trace, LAMBDA c : c[1] = "predict_raw")) = 1
        /\ (pc = "failed" /\ ~faulty) =>
              /\ Len(val_dataloader) < 10
              /\ trace[Len(trace)] = <<"plot_prediction", Len(val_dataloader)>>

\* C8: the above in every state, and every pass of the loop with idx below 10
\* requests the plot for idx, whatever the number of validation samples.
C8_TenPlots ==
    /\ []C8_Requests
    /\ [][(entry = "plot_prediction" /\ pc = "plot_50" /\ idx < 10)
            => trace' = Append(trace, <<"plot_prediction", idx>>)]_vars

C8_Witness ==
    /\ entry = "plot_prediction"
    /\ Len(val_dataloader) = 3
    /\ ~faulty
    /\ trace # <<>>
    /\ trace[Len(trace)] = <<"plot_prediction", 3>>

SeriesOf(rs) == {r[1] : r \in rs}

\* C9: once both datasets are built, the training rows and the validation
\* rows partition the generated rows by series: a row is a validation row
\* exactly when its series occurs in the sample drawn at the start, and a
\* training row otherwise; no series is in both; and the number of
\* validation series is between 1 and the size of the sample.
C9_Partition ==
    (entry = "main" /\ validation.kind = "dataset") =>
        /\ data = Rows
        /\ training \cap validation.rows = {}
        /\ training \cup validation.rows = data
        /\ \A r \in data : (r \in validation.rows) <=> (sampled[r[1]] > 0)
        /\ \A r \in data : (r \in training) <=> (sampled[r[1]] = 0)
        /\ SeriesOf(training) \cap SeriesOf(validation.rows) = {}
        /\ Cardinality(SeriesOf(validation.rows)) \in 1..SampleSize

C9_Witness ==
    /\ entry = "main"
    /\ validation.kind = "dataset"
    /\ Cardinality(SeriesOf(validation.rows)) = 1
    /\ Cardinality(SeriesOf(training)) = NSeries - 1

====
